---- MODULE Spec2Model ----
(***************************************************************************)
(* ControllerMultiFlex (python/sglang/srt/managers/controller_flex.py):    *)
(* the dispatcher of a data parallel inference service.  The tokenizer     *)
(* pushes messages to the intake socket; the dispatcher loop drains the    *)
(* socket (recv_requests) and hands the batch to the configured policy     *)
(* (round_robin_scheduler, shortest_queue_scheduler or                     *)
(* resources_aware_scheduler), which puts every item on one worker queue.  *)
(* Workers are separate processes: they take items from their queue and    *)
(* give back the tokens of finished requests in the shared load block.     *)
(*                                                                         *)
(* A message is named by its position in msgs, the sequence of everything  *)
(* the tokenizer has pushed; the batch and the worker queues hold these    *)
(* positions, so every object keeps its identity.                          *)
(***************************************************************************)
EXTENDS Integers, Sequences, FiniteSets, TLC

\* ---------------------------------------------------------------- bounds
MaxDp == 2       \* largest dp_size of the general specification
MaxSend == 2     \* messages the tokenizer pushes in the general specification
NumRids == 2     \* distinct request ids
MaxLen == 2      \* longest input_ids of the small requests

\* int(os.getenv("THRESOLD", 100)) with the variable unset
threshold == 100

VARIABLES
    load_balance_method, \* self.load_balance_method
    dp_size,             \* server_args.dp_size = len(self.workers)
    msgs,                \* every message pushed to the intake socket, in order
    nrecv,               \* how many of them recv_pyobj has returned
    tosend,              \* how many messages the tokenizer will still push
    pc,                  \* where the dispatcher is
    recv_reqs,           \* the batch of recv_requests / input_requests
    k,                   \* position in the batch of the policy's loop variable r
    sent,                \* per worker: every item put on its queue, in order
    head,                \* per worker: how many items it has taken (queue.get)
    rel,                 \* per worker: how many taken items it has released
    round_robin_counter, \* self.round_robin_counter
    queue_sizes,         \* shortest_queue_scheduler: the qsize() read so far
    current_bs,          \* controller_info.current_bs[i].value
    available_kv_cache,  \* controller_info.available_kv_cache[i].value
    info_num_reqs,       \* controller_info.num_reqs[i].value
    remained_token,      \* resources_aware_scheduler locals
    available_mem,
    num_reqs,
    available_gpu,
    target_gpu,
    input_len,
    base,                \* history: len of every queue history when the policy was called
    targets,             \* history: the workers chosen for the items of this batch
    cursor0,             \* history: round_robin_counter when the policy was called
    drain0,              \* history: nrecv when the drain of this iteration began
    branch,              \* history: the branch resources_aware_scheduler took for r
    seen,                \* history: the contents the load block has had since the
                         \* snapshot of this batch began (empty outside the snapshot)
    controller_info,     \* self.controller_info exists (the shared load block)
    workers,             \* self.workers: the ids of the workers with a handle in the table
    procs,               \* the worker processes started so far (proc.start()), in order
    init_state,          \* per started worker: what it has written to its init pipe
    sigkill              \* the worker processes that os.kill(pid, 9) has been sent to

vars == <<load_balance_method, dp_size, msgs, nrecv, tosend, pc, recv_reqs, k, sent, head,
          rel, round_robin_counter, queue_sizes, current_bs, available_kv_cache,
          info_num_reqs, remained_token, available_mem, num_reqs, available_gpu,
          target_gpu, input_len, base, targets, cursor0, drain0, branch, seen,
          controller_info, workers, procs, init_state, sigkill>>

config == <<load_balance_method, dp_size, tosend>>
block == <<current_bs, available_kv_cache, info_num_reqs>>
ralocals == <<remained_token, available_mem, num_reqs, available_gpu, target_gpu,
              input_len>>
history == <<base, targets, cursor0, drain0, branch>>
startup == <<controller_info, workers, procs, init_state, sigkill>>

\* ------------------------------------------------------------ data model
ROUND_ROBIN == "ROUND_ROBIN"
SHORTEST_QUEUE == "SHORTEST_QUEUE"
RESOURCES_AWARE == "RESOURCES_AWARE"
LoadBalanceMethod == {ROUND_ROBIN, SHORTEST_QUEUE, RESOURCES_AWARE}

Workers == 0 .. dp_size - 1

TokenizedGenerateReqInput(rid, n) ==
    [rid |-> rid, kind |-> "TokenizedGenerateReqInput", len |-> n]
AbortReq(rid) == [rid |-> rid, kind |-> "AbortReq", len |-> 0]
FlushCacheReq == [rid |-> 0, kind |-> "FlushCacheReq", len |-> 0]
InvalidObject == [rid |-> 0, kind |-> "Invalid", len |-> 0]

Rids == 1 .. NumRids

IsReq(s) == msgs[s].kind = "TokenizedGenerateReqInput"
IsAbort(s) == msgs[s].kind = "AbortReq"
IsFlush(s) == msgs[s].kind = "FlushCacheReq"

\* ---------------------------------------------------------------- helpers
MinOf(S) == CHOOSE x \in S : \A y \in S : x <= y

PutBeforeLast(q, w, s) ==
    [q EXCEPT ![w] = IF @ = <<>> THEN <<s>>
                     ELSE Append(SubSeq(@, 1, Len(@) - 1), s) \o <<@[Len(@)]>>]

PutFirst(q, w, s) == [q EXCEPT ![w] = <<s>> \o q[w]]

\* queue.put(r) on workers[w].queue
Put(q, w, s) == [q EXCEPT ![w] = Append(q[w], s)]

PutAllButLast(q, s) ==
    [w \in DOMAIN q |-> IF w + 1 = Cardinality(DOMAIN q) /\ w > 0 THEN q[w]
                        ELSE Append(q[w], s)]

\* for worker in self.workers: worker.queue.put(recv_req)
PutAll(q, s) == [w \in DOMAIN q |-> Append(q[w], s)]

\* worker.queue.qsize()
qsize(w) == Len(sent[w]) - head[w]

ArgMinLast(sizes) ==
    -MinOf({-i : i \in {i \in 1 .. Len(sizes) :
                          \A j \in 1 .. Len(sizes) : sizes[i] <= sizes[j]}}) - 1

\* np.argmin(queue_sizes) / num_reqs.index(min(num_reqs)): first index of the minimum,
\* as a worker id (0-based); sizes is a sequence, 1-based
ArgMinSeq(sizes) ==
    MinOf({i \in 1 .. Len(sizes) : \A j \in 1 .. Len(sizes) : sizes[i] <= sizes[j]}) - 1

ArgMinFnLast(f) ==
    -MinOf({-i : i \in {i \in DOMAIN f : \A j \in DOMAIN f : f[i] <= f[j]}})

\* the same on a list kept as a function over the worker ids
ArgMinFn(f) ==
    MinOf({i \in DOMAIN f : \A j \in DOMAIN f : f[i] <= f[j]})

\* ---------------------------------------------------------------- start-up
\* start_controller_process calls ControllerMultiFlex(...): __init__ up to
\* self.workers = [] and self.controller_info = ControllerInfo(...)
CreateControllerInfo ==
    /\ pc = "construct"
    /\ controller_info' = TRUE
    /\ workers' = <<>>
    /\ pc' = "spawn"
    /\ UNCHANGED <<config, procs, init_state, sigkill, seen, msgs, nrecv, recv_reqs, k,
                   sent, head, rel, round_robin_counter, queue_sizes, block, ralocals,
                   history>>

\* start_dp_worker(i) up to pipe_controller_reader.recv(): the process of worker
\* i = len(self.workers) is started
StartDpWorker ==
    /\ pc = "spawn"
    /\ Len(workers) < dp_size
    /\ procs' = Append(procs, Len(workers))
    /\ init_state' = Append(init_state, "none")
    /\ pc' = "handshake"
    /\ UNCHANGED <<config, controller_info, workers, sigkill, seen, msgs, nrecv,
                   recv_reqs, k, sent, head, rel, round_robin_counter, queue_sizes,
                   block, ralocals, history>>

\* The started worker writes "init ok" or an error description to its init pipe.
WorkerInit ==
    /\ Len(init_state) > 0
    /\ init_state[Len(init_state)] = "none"
    /\ \E s \in {"init ok", "error"} :
          init_state' = [init_state EXCEPT ![Len(init_state)] = s]
    /\ UNCHANGED <<config, controller_info, workers, procs, sigkill, seen, msgs, nrecv,
                   pc, recv_reqs, k, sent, head, rel, round_robin_counter, queue_sizes,
                   block, ralocals, history>>

InitAny(state) == state # "none"

\* controller_init_state != "init ok", negated
InitOk(state) == state = "init ok"

\* controller_init_state = pipe_controller_reader.recv(): "init ok" appends the
\* handle; anything else raises RuntimeError, __init__ fails and
\* start_controller_process sends the traceback and raises again
RecvInitState ==
    /\ pc = "handshake"
    /\ init_state[Len(init_state)] # "none"
    /\ IF InitOk(init_state[Len(init_state)])
       THEN /\ workers' = Append(workers, procs[Len(procs)])
            /\ pc' = "spawn"
       ELSE /\ pc' = "failed"
            /\ UNCHANGED workers
    /\ UNCHANGED <<config, controller_info, procs, init_state, sigkill, seen, msgs,
                   nrecv, recv_reqs, k, sent, head, rel, round_robin_counter,
                   queue_sizes, block, ralocals, history>>

\* the for loop of __init__ is over: pipe_writer.send("init ok") and
\* controller.loop_for_forward()
StartLoop ==
    /\ pc = "spawn"
    /\ Len(workers) = dp_size
    /\ pc' = "recv"
    /\ UNCHANGED <<config, startup, seen, msgs, nrecv, recv_reqs, k, sent, head, rel,
                   round_robin_counter, queue_sizes, block, ralocals, history>>

\* ------------------------------------------------------------- tokenizer
\* The tokenizer pushes one message of M to the intake socket.
TokenizerSend(M) ==
    /\ pc # "killed"
    /\ tosend > 0
    /\ tosend' = tosend - 1
    /\ \E m \in M : msgs' = Append(msgs, m)
    /\ UNCHANGED <<load_balance_method, dp_size, startup, seen, nrecv, pc, recv_reqs, k,
                   sent, head, rel,
                   round_robin_counter, queue_sizes, block, ralocals, history>>

\* -------------------------------------------------------- recv_requests
\* the first slot of the batch whose rid is the abort's (0: none)
\* a scan that never finds the rid in the batch
FindNoRid(batch, rid) == 0

FindRid(batch, rid) ==
    LET hits == {i \in 1 .. Len(batch) : msgs[batch[i]].rid = rid}
    IN IF hits = {} THEN 0 ELSE MinOf(hits)

RecvStepKeepsOther ==
    /\ pc = "recv"
    /\ nrecv < Len(msgs)
    /\ LET s == nrecv + 1
           m == msgs[s]
           slot == FindRid(recv_reqs, m.rid)
       IN /\ nrecv' = s
          /\ CASE m.kind = "FlushCacheReq" ->
                    /\ sent' = PutAll(sent, s)
                    /\ UNCHANGED recv_reqs
               [] m.kind = "AbortReq" ->
                    IF slot # 0
                    THEN /\ recv_reqs' = [recv_reqs EXCEPT ![slot] = s]
                         /\ UNCHANGED sent
                    ELSE /\ sent' = PutAll(sent, s)
                         /\ UNCHANGED recv_reqs
               [] m.kind = "TokenizedGenerateReqInput" ->
                    /\ recv_reqs' = Append(recv_reqs, s)
                    /\ UNCHANGED sent
               [] OTHER ->
                    /\ recv_reqs' = Append(recv_reqs, s)
                    /\ UNCHANGED sent
    /\ UNCHANGED <<config, startup, seen, msgs, pc, k, head, rel, round_robin_counter,
                   queue_sizes,
                   block, ralocals, history>>

\* One pass of the while loop: recv_pyobj(zmq.NOBLOCK) returns a message.
RecvStep ==
    /\ pc = "recv"
    /\ nrecv < Len(msgs)
    /\ LET s == nrecv + 1
           m == msgs[s]
           slot == FindRid(recv_reqs, m.rid)
       IN /\ nrecv' = s
          /\ CASE m.kind = "FlushCacheReq" ->
                    /\ sent' = PutAll(sent, s)
                    /\ UNCHANGED recv_reqs
               [] m.kind = "AbortReq" ->
                    IF slot # 0
                    THEN /\ recv_reqs' = [recv_reqs EXCEPT ![slot] = s]
                         /\ UNCHANGED sent
                    ELSE /\ sent' = PutAll(sent, s)
                         /\ UNCHANGED recv_reqs
               [] m.kind = "TokenizedGenerateReqInput" ->
                    /\ recv_reqs' = Append(recv_reqs, s)
                    /\ UNCHANGED sent
               [] OTHER ->
                    UNCHANGED <<recv_reqs, sent>>
    /\ UNCHANGED <<config, startup, seen, msgs, pc, k, head, rel, round_robin_counter,
                   queue_sizes,
                   block, ralocals, history>>

\* recv_pyobj raises zmq.ZMQError (nothing to read): the drain ends and
\* loop_for_forward calls self.dispatching(recv_reqs).
RecvEmpty ==
    /\ pc = "recv"
    /\ nrecv = Len(msgs)
    /\ pc' = CASE load_balance_method = ROUND_ROBIN -> "rr"
               [] load_balance_method = SHORTEST_QUEUE -> "sq"
               [] OTHER -> "ra_start"
    /\ k' = 1
    /\ base' = [w \in Workers |-> Len(sent[w])]
    /\ targets' = <<>>
    /\ cursor0' = round_robin_counter
    /\ UNCHANGED <<branch, drain0, config, startup, seen, msgs, nrecv, recv_reqs, sent,
                   head, rel, round_robin_counter, queue_sizes, block, ralocals>>

Zero == [w \in Workers |-> 0]

ReturnCursorMoved ==
    /\ pc' = "recv"
    /\ recv_reqs' = <<>>
    /\ k' = 1
    /\ remained_token' = Zero
    /\ available_mem' = Zero
    /\ num_reqs' = Zero
    /\ available_gpu' = <<>>
    /\ target_gpu' = 0
    /\ input_len' = 0
    /\ branch' = "none"
    /\ base' = Zero
    /\ targets' = <<>>
    /\ cursor0' = 0
    /\ drain0' = nrecv
    /\ round_robin_counter' = (round_robin_counter + 1) % dp_size
    /\ UNCHANGED <<config, startup, seen, msgs, nrecv, sent, head, rel, queue_sizes,
                   block>>

\* the policy returns (its locals are gone); the next recv_requests starts with
\* recv_reqs = []
Return ==
    /\ pc' = "recv"
    /\ recv_reqs' = <<>>
    /\ k' = 1
    /\ remained_token' = Zero
    /\ available_mem' = Zero
    /\ num_reqs' = Zero
    /\ available_gpu' = <<>>
    /\ target_gpu' = 0
    /\ input_len' = 0
    /\ branch' = "none"
    /\ base' = Zero
    /\ targets' = <<>>
    /\ cursor0' = 0
    /\ drain0' = nrecv
    /\ UNCHANGED <<config, startup, seen, msgs, nrecv, sent, head, rel,
                   round_robin_counter,
                   queue_sizes, block>>

\* ------------------------------------------------- round_robin_scheduler
RoundRobinNoWrap(counter) == counter + 1

RoundRobinNext(counter) == (counter + 1) % dp_size

RoundRobinStep ==
    /\ pc = "rr"
    /\ k <= Len(recv_reqs)
    /\ sent' = Put(sent, round_robin_counter, recv_reqs[k])
    /\ round_robin_counter' = RoundRobinNext(round_robin_counter)
    /\ targets' = Append(targets, round_robin_counter)
    /\ k' = k + 1
    /\ UNCHANGED <<config, startup, seen, msgs, nrecv, pc, recv_reqs, head, rel,
                   queue_sizes,
                   block, ralocals, base, cursor0, drain0, branch>>

RoundRobinReturn ==
    /\ pc = "rr"
    /\ k > Len(recv_reqs)
    /\ Return

\* ------------------------------------------------ shortest_queue_scheduler
\* one worker.queue.qsize() of the list comprehension
ShortestQueueRead ==
    /\ pc = "sq"
    /\ k <= Len(recv_reqs)
    /\ Len(queue_sizes) < dp_size
    /\ queue_sizes' = Append(queue_sizes, qsize(Len(queue_sizes)))
    /\ UNCHANGED <<config, startup, seen, msgs, nrecv, pc, recv_reqs, k, sent, head, rel,
                   round_robin_counter, block, ralocals, history>>

\* wid = np.argmin(queue_sizes); self.workers[wid].queue.put(r)
ShortestQueuePut ==
    /\ pc = "sq"
    /\ k <= Len(recv_reqs)
    /\ Len(queue_sizes) = dp_size
    /\ LET wid == ArgMinSeq(queue_sizes)
       IN /\ sent' = Put(sent, wid, recv_reqs[k])
          /\ targets' = Append(targets, wid)
    /\ queue_sizes' = <<>>
    /\ k' = k + 1
    /\ UNCHANGED <<config, startup, seen, msgs, nrecv, pc, recv_reqs, head, rel,
                   round_robin_counter, block, ralocals, base, cursor0, drain0, branch>>

ShortestQueueReturn ==
    /\ pc = "sq"
    /\ k > Len(recv_reqs)
    /\ Return

\* ---------------------------------------------- resources_aware_scheduler
\* if len(input_requests) == 0: return
ResourcesAwareReturnEmpty ==
    /\ pc = "ra_start"
    /\ Len(recv_reqs) = 0
    /\ Return

\* remained_token = [k.value for k in self.controller_info.current_bs]
ResourcesAwareReadCurrentBs ==
    /\ pc = "ra_start"
    /\ Len(recv_reqs) # 0
    /\ remained_token' = current_bs
    /\ seen' = {block}
    /\ pc' = "ra_mem"
    /\ UNCHANGED <<config, startup, msgs, nrecv, recv_reqs, k, sent, head, rel,
                   round_robin_counter, queue_sizes, block, available_mem, num_reqs,
                   available_gpu, target_gpu, input_len, history>>

\* available_mem = [k.value for k in self.controller_info.available_kv_cache]
ResourcesAwareReadAvailableMem ==
    /\ pc = "ra_mem"
    /\ available_mem' = available_kv_cache
    /\ pc' = "ra_reqs"
    /\ UNCHANGED <<config, startup, seen, msgs, nrecv, recv_reqs, k, sent, head, rel,
                   round_robin_counter, queue_sizes, block, remained_token, num_reqs,
                   available_gpu, target_gpu, input_len, history>>

RECURSIVE AvailableGpuAtLeast(_, _, _)
AvailableGpuAtLeast(mem, rem, n) ==
    IF n = 0 THEN <<>>
    ELSE IF mem[n - 1] - rem[n - 1] >= threshold
         THEN Append(AvailableGpuAtLeast(mem, rem, n - 1),
                     [id |-> n - 1, id_remained_token |-> rem[n - 1]])
         ELSE AvailableGpuAtLeast(mem, rem, n - 1)

\* the ids i, in index order, with available_mem[i] - remained_token[i] > threshold,
\* each with the remained_token it has now
RECURSIVE AvailableGpuUpTo(_, _, _)
AvailableGpuUpTo(mem, rem, n) ==
    IF n = 0 THEN <<>>
    ELSE IF mem[n - 1] - rem[n - 1] > threshold
         THEN Append(AvailableGpuUpTo(mem, rem, n - 1),
                     [id |-> n - 1, id_remained_token |-> rem[n - 1]])
         ELSE AvailableGpuUpTo(mem, rem, n - 1)

AvailableGpu(mem, rem) == AvailableGpuUpTo(mem, rem, dp_size)

\* num_reqs = [k.value for k in self.controller_info.num_reqs], then the
\* available_gpu list is built from the copies
ResourcesAwareReadNumReqs ==
    /\ pc = "ra_reqs"
    /\ num_reqs' = info_num_reqs
    /\ available_gpu' = AvailableGpu(available_mem, remained_token)
    /\ pc' = "ra_loop"
    /\ UNCHANGED <<config, startup, seen, msgs, nrecv, recv_reqs, k, sent, head, rel,
                   round_robin_counter, queue_sizes, block, remained_token,
                   available_mem, target_gpu, input_len, history>>

\* sorted(available_gpu, key=lambda x: x["id_remained_token"]): a stable sort on the
\* key stored in the entry
Insert(x, s) ==
    LET n == Cardinality({i \in 1 .. Len(s) :
                             s[i].id_remained_token <= x.id_remained_token})
    IN SubSeq(s, 1, n) \o <<x>> \o SubSeq(s, n + 1, Len(s))

RECURSIVE SortedUpTo(_, _)
SortedUpTo(gpus, n) ==
    IF n = 0 THEN <<>> ELSE Insert(gpus[n], SortedUpTo(gpus, n - 1))

Sorted(gpus) == SortedUpTo(gpus, Len(gpus))

PopLast(gpus) == SubSeq(gpus, 1, Len(gpus) - 1)

\* available_gpu.pop(0)
Pop0(gpus) == Tail(gpus)

\* One request of the for loop, up to the lock: a request is put on the queue of
\* the chosen worker and the local projections follow.  An AbortReq has no
\* input_ids: len(r.input_ids) raises, loop_for_forward ends and
\* start_controller_process kills the workers and the parent.
ResourcesAwarePut ==
    /\ pc = "ra_loop"
    /\ k <= Len(recv_reqs)
    /\ IF IsAbort(recv_reqs[k])
       THEN /\ pc' = "killed"
            /\ sigkill' = {workers[i] : i \in 1 .. Len(workers)}
            /\ UNCHANGED <<k, sent, ralocals, history>>
       ELSE LET len == msgs[recv_reqs[k]].len
                gpus == IF Len(available_gpu) > 0 THEN Sorted(available_gpu)
                        ELSE available_gpu
                t == IF Len(available_gpu) > 0 THEN gpus[1].id
                     ELSE ArgMinFn(num_reqs)
                mem == [available_mem EXCEPT ![t] = @ - len]
                rem == [remained_token EXCEPT ![t] = @ + len]
            IN /\ input_len' = len
               /\ target_gpu' = t
               /\ sent' = Put(sent, t, recv_reqs[k])
               /\ num_reqs' = [num_reqs EXCEPT ![t] = @ + 1]
               /\ remained_token' = rem
               /\ available_mem' = mem
               /\ available_gpu' =
                      IF Len(available_gpu) > 0 /\ mem[t] - rem[t] <= threshold
                      THEN Pop0(gpus) ELSE gpus
               /\ targets' = Append(targets, t)
               /\ branch' = IF Len(available_gpu) > 0 THEN "eligible" ELSE "fallback"
               /\ pc' = "ra_lock"
               /\ UNCHANGED <<k, base, cursor0, drain0, sigkill>>
    /\ seen' = {}
    /\ UNCHANGED <<config, controller_info, workers, procs, init_state, msgs, nrecv,
                   recv_reqs, head, rel, round_robin_counter, queue_sizes, block>>

ReserveFromProjection(bs, t, n) == [bs EXCEPT ![t] = remained_token[t]]

\* self.controller_info.current_bs[target_gpu].value += input_len
Reserve(bs, t, n) == [bs EXCEPT ![t] = @ + n]

\* with self.controller_info.lock: current_bs[target_gpu].value += input_len
ResourcesAwareReserve ==
    /\ pc = "ra_lock"
    /\ current_bs' = Reserve(current_bs, target_gpu, input_len)
    /\ k' = k + 1
    /\ pc' = "ra_loop"
    /\ UNCHANGED <<config, startup, seen, msgs, nrecv, recv_reqs, sent, head, rel,
                   round_robin_counter, queue_sizes, available_kv_cache,
                   info_num_reqs, ralocals, history>>

ResourcesAwareReturn ==
    /\ pc = "ra_loop"
    /\ k > Len(recv_reqs)
    /\ Return

\* ----------------------------------------------------------------- workers
\* history: a write to the load block while the dispatcher is taking its snapshot
\* gives the block one more content
During(b) == IF pc \in {"ra_mem", "ra_reqs"} THEN seen \cup {b} ELSE seen

\* A worker takes the next item from its ingress queue.
WorkerTake(w) ==
    /\ pc # "killed"
    /\ head[w] < Len(sent[w])
    /\ head' = [head EXCEPT ![w] = @ + 1]
    /\ UNCHANGED <<config, startup, seen, msgs, nrecv, pc, recv_reqs, k, sent, rel,
                   round_robin_counter, queue_sizes, block, ralocals, history>>

\* A worker has finished the oldest item it took and gives its tokens back, under
\* the lock: current_bs[w] -= len(input_ids) (nothing for a control message).
WorkerRelease(w) ==
    /\ pc # "killed"
    /\ rel[w] < head[w]
    /\ rel' = [rel EXCEPT ![w] = @ + 1]
    /\ current_bs' = [current_bs EXCEPT ![w] = @ - msgs[sent[w][rel[w] + 1]].len]
    /\ UNCHANGED <<config, startup, msgs, nrecv, pc, recv_reqs, k, sent, head,
                   round_robin_counter, queue_sizes, available_kv_cache,
                   info_num_reqs, ralocals, history>>
    /\ seen' = During(block')

\* A worker has finished the oldest request it took and writes two fields of the
\* load block in one critical section of the lock: the tokens leave current_bs[w]
\* and their slots are free again in available_kv_cache[w].
WorkerComplete(w) ==
    /\ pc # "killed"
    /\ rel[w] < head[w]
    /\ rel' = [rel EXCEPT ![w] = @ + 1]
    /\ LET n == msgs[sent[w][rel[w] + 1]].len
       IN /\ current_bs' = [current_bs EXCEPT ![w] = @ - n]
          /\ available_kv_cache' = [available_kv_cache EXCEPT ![w] = @ + n]
    /\ UNCHANGED <<config, startup, msgs, nrecv, pc, recv_reqs, k, sent, head,
                   round_robin_counter, queue_sizes, info_num_reqs, ralocals, history>>
    /\ seen' = During(block')

\* ------------------------------------------------------------ specification
\* What the workers have published when the loop starts, per worker
\* <<available_kv_cache, num_reqs>>; dp_size workers take the first dp_size entries.
PublishedNear == << <<102, 0>>, <<101, 0>>, <<103, 1>>, <<102, 0>> >>
PublishedMixed == << <<0, 1>>, <<103, 1>>, <<0, 0>>, <<101, 0>> >>
PublishedRoomy == << <<1000, 0>>, <<500, 0>>, <<102, 0>>, <<0, 0>> >>
PublishedFull == << <<50, 5>>, <<60, 2>>, <<101, 1>>, <<0, 0>> >>

NoneWaiting == <<0, 0, 0, 0>>

\* A start of the loop: the configuration, what the workers published, depths[w]
\* requests of earlier batches waiting in queue w, what the tokenizer has pushed
\* to the socket while the workers were starting, and how many messages it will
\* push later.
Start(method, n, published, waiting, pushed, sends) ==
    [method |-> method, dp |-> n, published |-> published, waiting |-> waiting,
     pushed |-> pushed, sends |-> sends]

RECURSIVE Offset(_, _)
Offset(depths, w) == IF w = 0 THEN 0 ELSE Offset(depths, w - 1) + depths[w]

InitFrom(starts) ==
    \E st \in starts :
        /\ load_balance_method = st.method
        /\ dp_size = st.dp
        /\ msgs = [i \in 1 .. Offset(st.waiting, st.dp) |->
                      TokenizedGenerateReqInput(0, 1)] \o st.pushed
        /\ nrecv = Offset(st.waiting, st.dp)
        /\ tosend = st.sends
        /\ sent = [w \in 0 .. st.dp - 1 |->
                      [i \in 1 .. st.waiting[w + 1] |-> Offset(st.waiting, w) + i]]
        /\ pc = "recv"
        /\ recv_reqs = <<>>
        /\ k = 1
        /\ head = [w \in 0 .. st.dp - 1 |-> 0]
        /\ rel = [w \in 0 .. st.dp - 1 |-> 0]
        /\ round_robin_counter = 0
        /\ queue_sizes = <<>>
        /\ current_bs = [w \in 0 .. st.dp - 1 |-> 0]
        /\ available_kv_cache = [w \in 0 .. st.dp - 1 |-> st.published[w + 1][1]]
        /\ info_num_reqs = [w \in 0 .. st.dp - 1 |-> st.published[w + 1][2]]
        /\ remained_token = [w \in 0 .. st.dp - 1 |-> 0]
        /\ available_mem = [w \in 0 .. st.dp - 1 |-> 0]
        /\ num_reqs = [w \in 0 .. st.dp - 1 |-> 0]
        /\ available_gpu = <<>>
        /\ target_gpu = 0
        /\ input_len = 0
        /\ base = [w \in 0 .. st.dp - 1 |-> 0]
        /\ targets = <<>>
        /\ cursor0 = 0
        /\ drain0 = Offset(st.waiting, st.dp)
        /\ branch = "none"
        /\ seen = {}
        /\ controller_info = TRUE
        /\ workers = [i \in 1 .. st.dp |-> i - 1]
        /\ procs = [i \in 1 .. st.dp |-> i - 1]
        /\ init_state = [i \in 1 .. st.dp |-> "init ok"]
        /\ sigkill = {}

Requests(lens) == {TokenizedGenerateReqInput(r, n) : r \in Rids, n \in lens}

AllMessages ==
    Requests({1}) \cup {AbortReq(r) : r \in Rids} \cup {FlushCacheReq, InvalidObject}

\* the streams of the scenarios: requests a, b, an abort of a, request c; one abort
AbortStream ==
    <<TokenizedGenerateReqInput(1, 1), TokenizedGenerateReqInput(2, 1), AbortReq(1),
      TokenizedGenerateReqInput(3, 1)>>

Repeat(m, n) == [i \in 1 .. n |-> m]

\* The dispatcher with every policy and every kind of message.
Starts ==
    {Start(m, n, PublishedNear, NoneWaiting, <<>>, MaxSend) :
        m \in LoadBalanceMethod, n \in 1 .. MaxDp}
    \cup {Start(m, 2, PublishedNear, NoneWaiting, AbortStream, MaxSend) :
            m \in LoadBalanceMethod}

Init == InitFrom(Starts)

Next ==
    \/ TokenizerSend(AllMessages)
    \/ RecvStep
    \/ RecvEmpty
    \/ RoundRobinStep
    \/ RoundRobinReturn
    \/ ShortestQueueRead
    \/ ShortestQueuePut
    \/ ShortestQueueReturn
    \/ ResourcesAwareReturnEmpty
    \/ ResourcesAwareReadCurrentBs
    \/ ResourcesAwareReadAvailableMem
    \/ ResourcesAwareReadNumReqs
    \/ ResourcesAwarePut
    \/ ResourcesAwareReserve
    \/ ResourcesAwareReturn
    \/ \E w \in Workers : WorkerTake(w)

Spec == Init /\ [][Next]_vars

\* The steps of the dispatcher's thread.  loop_for_forward is a single thread that
\* never waits for the tokenizer (recv_pyobj with zmq.NOBLOCK) nor for a worker
\* (unbounded queues, a lock held for one update): whenever it has a step it takes
\* it, which is weak fairness of its steps.
Dispatcher ==
    \/ RecvStep
    \/ RecvEmpty
    \/ RoundRobinStep
    \/ RoundRobinReturn
    \/ ShortestQueueRead
    \/ ShortestQueuePut
    \/ ShortestQueueReturn
    \/ ResourcesAwareReturnEmpty
    \/ ResourcesAwareReadCurrentBs
    \/ ResourcesAwareReadAvailableMem
    \/ ResourcesAwareReadNumReqs
    \/ ResourcesAwarePut
    \/ ResourcesAwareReserve
    \/ ResourcesAwareReturn

SpecLive == Init /\ [][Next]_vars /\ WF_vars(Dispatcher)

\* round_robin_scheduler alone, up to one worker more and longer batches.
StartsRoundRobin ==
    {Start(ROUND_ROBIN, n, PublishedNear, NoneWaiting, p, MaxSend) :
        n \in 1 .. MaxDp + 1,
        p \in {<<>>, Repeat(TokenizedGenerateReqInput(1, 1), 5)}}

InitRoundRobin == InitFrom(StartsRoundRobin)

NextRoundRobin ==
    \/ TokenizerSend(AllMessages)
    \/ RecvStep
    \/ RecvEmpty
    \/ RoundRobinStep
    \/ RoundRobinReturn

SpecRoundRobin == InitRoundRobin /\ [][NextRoundRobin]_vars

\* shortest_queue_scheduler with the workers taking items from their queues.
StartsShortestQueue ==
    {Start(SHORTEST_QUEUE, n, PublishedNear, NoneWaiting, <<>>, MaxSend + 1) :
        n \in 1 .. MaxDp + 1}
    \cup {Start(SHORTEST_QUEUE, 3, PublishedNear, <<4, 1, 2>>,
                Repeat(TokenizedGenerateReqInput(1, 1), 4), 0)}

InitShortestQueue == InitFrom(StartsShortestQueue)

NextShortestQueue ==
    \/ TokenizerSend(Requests({1}))
    \/ RecvStep
    \/ RecvEmpty
    \/ ShortestQueueRead
    \/ ShortestQueuePut
    \/ ShortestQueueReturn
    \/ \E w \in Workers : WorkerTake(w)

SpecShortestQueue == InitShortestQueue /\ [][NextShortestQueue]_vars

\* resources_aware_scheduler with the workers taking items and releasing tokens.
StartsResourcesAware ==
    {Start(RESOURCES_AWARE, n, p, NoneWaiting, <<>>, MaxSend + 1) :
        n \in 1 .. MaxDp,
        p \in {PublishedNear, PublishedMixed, PublishedRoomy, PublishedFull}}
    \cup {Start(RESOURCES_AWARE, 2, PublishedRoomy, NoneWaiting,
                Repeat(TokenizedGenerateReqInput(1, 200), 3), 0),
          Start(RESOURCES_AWARE, 2, PublishedFull, NoneWaiting,
                Repeat(TokenizedGenerateReqInput(1, 1), 4), 0)}

InitResourcesAware == InitFrom(StartsResourcesAware)

NextResourcesAware ==
    \/ TokenizerSend({TokenizedGenerateReqInput(1, n) : n \in 1 .. MaxLen})
    \/ RecvStep
    \/ RecvEmpty
    \/ ResourcesAwareReturnEmpty
    \/ ResourcesAwareReadCurrentBs
    \/ ResourcesAwareReadAvailableMem
    \/ ResourcesAwareReadNumReqs
    \/ ResourcesAwarePut
    \/ ResourcesAwareReserve
    \/ ResourcesAwareReturn
    \/ \E w \in Workers : WorkerTake(w)
    \/ \E w \in Workers : WorkerRelease(w)

SpecResourcesAware == InitResourcesAware /\ [][NextResourcesAware]_vars

\* resources_aware_scheduler with workers that write several fields of the load
\* block in one critical section.
StartsSnapshot ==
    {Start(RESOURCES_AWARE, n, p, NoneWaiting, <<>>, MaxSend) :
        n \in 1 .. MaxDp, p \in {PublishedNear, PublishedFull}}

InitSnapshot == InitFrom(StartsSnapshot)

NextSnapshot ==
    \/ TokenizerSend({TokenizedGenerateReqInput(1, n) : n \in 1 .. MaxLen})
    \/ RecvStep
    \/ RecvEmpty
    \/ ResourcesAwareReturnEmpty
    \/ ResourcesAwareReadCurrentBs
    \/ ResourcesAwareReadAvailableMem
    \/ ResourcesAwareReadNumReqs
    \/ ResourcesAwarePut
    \/ ResourcesAwareReserve
    \/ ResourcesAwareReturn
    \/ \E w \in Workers : WorkerTake(w)
    \/ \E w \in Workers : WorkerComplete(w)

SpecSnapshot == InitSnapshot /\ [][NextSnapshot]_vars

\* the three policies with workers that take items and release tokens
StartsReservation ==
    {Start(m, n, PublishedNear, NoneWaiting, <<>>, MaxSend) :
        m \in LoadBalanceMethod, n \in 1 .. MaxDp}

InitReservation == InitFrom(StartsReservation)

NextReservation ==
    \/ TokenizerSend({TokenizedGenerateReqInput(1, n) : n \in 1 .. MaxLen})
    \/ RecvStep
    \/ RecvEmpty
    \/ RoundRobinStep
    \/ RoundRobinReturn
    \/ ShortestQueueRead
    \/ ShortestQueuePut
    \/ ShortestQueueReturn
    \/ ResourcesAwareReturnEmpty
    \/ ResourcesAwareReadCurrentBs
    \/ ResourcesAwareReadAvailableMem
    \/ ResourcesAwareReadNumReqs
    \/ ResourcesAwarePut
    \/ ResourcesAwareReserve
    \/ ResourcesAwareReturn
    \/ \E w \in Workers : WorkerTake(w)
    \/ \E w \in Workers : WorkerRelease(w)

SpecReservation == InitReservation /\ [][NextReservation]_vars

\* start_controller_process from its first line: the construction of the
\* controller with the init handshakes, then the loop under the three policies.
InitStartUp ==
    \E m \in LoadBalanceMethod : \E n \in 1 .. MaxDp :
        /\ load_balance_method = m
        /\ dp_size = n
        /\ msgs = <<>>
        /\ nrecv = 0
        /\ tosend = MaxSend
        /\ sent = [w \in 0 .. n - 1 |-> <<>>]
        /\ pc = "construct"
        /\ recv_reqs = <<>>
        /\ k = 1
        /\ head = [w \in 0 .. n - 1 |-> 0]
        /\ rel = [w \in 0 .. n - 1 |-> 0]
        /\ round_robin_counter = 0
        /\ queue_sizes = <<>>
        /\ current_bs = [w \in 0 .. n - 1 |-> 0]
        /\ available_kv_cache = [w \in 0 .. n - 1 |-> PublishedNear[w + 1][1]]
        /\ info_num_reqs = [w \in 0 .. n - 1 |-> PublishedNear[w + 1][2]]
        /\ remained_token = [w \in 0 .. n - 1 |-> 0]
        /\ available_mem = [w \in 0 .. n - 1 |-> 0]
        /\ num_reqs = [w \in 0 .. n - 1 |-> 0]
        /\ available_gpu = <<>>
        /\ target_gpu = 0
        /\ input_len = 0
        /\ base = [w \in 0 .. n - 1 |-> 0]
        /\ targets = <<>>
        /\ cursor0 = 0
        /\ drain0 = 0
        /\ branch = "none"
        /\ seen = {}
        /\ controller_info = FALSE
        /\ workers = <<>>
        /\ procs = <<>>
        /\ init_state = <<>>
        /\ sigkill = {}

NextStartUp ==
    \/ CreateControllerInfo
    \/ StartDpWorker
    \/ WorkerInit
    \/ RecvInitState
    \/ StartLoop
    \/ Next

SpecStartUp == InitStartUp /\ [][NextStartUp]_vars

\* ================================================================= claims
\* the dispatcher is inside the policy called for the batch recv_reqs
InPolicy == pc \in {"rr", "sq", "ra_start", "ra_mem", "ra_reqs", "ra_loop", "ra_lock"}

\* the policy's loop is over, or the dispatcher has been killed
Finished ==
    \/ pc = "killed"
    \/ pc \in {"rr", "sq", "ra_loop"} /\ k > Len(recv_reqs)

\* what was put on queue w since the policy was called
New(w) == SubSeq(sent[w], base[w] + 1, Len(sent[w]))

\* the first d items of the batch that were routed to w, in batch order
RECURSIVE Routed(_, _)
Routed(w, d) ==
    IF d = 0 THEN <<>>
    ELSE IF targets[d] = w THEN Append(Routed(w, d - 1), recv_reqs[d])
         ELSE Routed(w, d - 1)

\* how often item s is in the sequence q
Count(q, s) == Cardinality({i \in 1 .. Len(q) : q[i] = s})

\* C1: under each policy, at every point of the dispatch of a batch, the items put
\* on the worker queues since the policy was called are exactly the items of the
\* batch handled so far, each on the one queue chosen for it and in batch order; when
\* the loop ends every item of the batch has been handled.
C1_EveryItemOnceInOrder ==
    InPolicy =>
        /\ Len(targets) = (IF pc = "ra_lock" THEN k ELSE k - 1)
        /\ Len(targets) <= Len(recv_reqs)
        /\ \A w \in Workers : New(w) = Routed(w, Len(targets))

C1_Witness ==
    /\ Finished
    /\ pc # "killed"
    /\ Len(recv_reqs) >= 3
    /\ \E w \in Workers : \E v \in Workers \ {w} : Len(New(w)) >= 2 /\ Len(New(v)) >= 1

\* C2 (the routing half): when the dispatch of a batch has ended, every AbortReq that
\* took the slot of a pending request of the batch is on exactly one worker queue,
\* the one of the worker the policy chose for that slot, whichever policy is
\* configured.
C2_AbortInSlotOnOneQueue ==
    Finished =>
        \A j \in 1 .. Len(recv_reqs) :
            IsAbort(recv_reqs[j]) =>
                /\ j <= Len(targets)
                /\ \A w \in Workers :
                      Count(sent[w], recv_reqs[j]) = (IF w = targets[j] THEN 1 ELSE 0)

\* C3: every FlushCacheReq received is on every worker queue exactly once, and never
\* in the batch; one not yet received is on no queue.
C3_FlushOnEveryQueueOnce ==
    \A s \in 1 .. Len(msgs) :
        IsFlush(s) =>
            /\ \A w \in Workers : Count(sent[w], s) = (IF s <= nrecv THEN 1 ELSE 0)
            /\ \A j \in 1 .. Len(recv_reqs) : recv_reqs[j] # s

C3_Witness ==
    /\ dp_size = 2
    /\ Len(recv_reqs) >= 1
    /\ \E s \in 1 .. nrecv : IsFlush(s) /\ s > recv_reqs[1]

\* an AbortReq or FlushCacheReq equal to message s, received no earlier than s, is on
\* some worker queue
Delivered(s) ==
    \E w \in Workers : \E i \in 1 .. Len(sent[w]) :
        sent[w][i] >= s /\ msgs[sent[w][i]] = msgs[s]

\* C4: when the dispatch of a batch has ended (the policy's loop is over, or the
\* dispatcher has been killed and will deliver nothing more), every AbortReq and
\* FlushCacheReq received so far has been delivered to at least one worker queue.
C4_ControlMessagesDelivered ==
    Finished =>
        \A s \in 1 .. nrecv : (IsAbort(s) \/ IsFlush(s)) => Delivered(s)

\* the state part of C5
C5_Cursor ==
    /\ round_robin_counter \in 0 .. dp_size - 1
    /\ pc = "rr" =>
          /\ Len(targets) = k - 1
          /\ \A j \in 1 .. Len(targets) : targets[j] = (cursor0 + j - 1) % dp_size
          /\ \A w \in Workers : New(w) = Routed(w, Len(targets))
          /\ round_robin_counter = (cursor0 + Len(targets)) % dp_size
    /\ (pc = "rr" /\ dp_size = 3 /\ cursor0 = 0 /\ Len(recv_reqs) = 5 /\ k > 5) =>
          targets = <<0, 1, 2, 0, 1>> /\ round_robin_counter = 2

\* the step part of C5: the cursor the policy starts from is the one the last batch
\* left, and nothing but the policy's loop moves it
C5_CursorKept ==
    /\ (pc = "recv" \/ pc' = "recv") => round_robin_counter' = round_robin_counter
    /\ (pc = "recv" /\ pc' = "rr") => cursor0' = round_robin_counter

\* C5: ROUND_ROBIN: the cursor is always in [0, N); item j of a batch goes to worker
\* (c + j - 1) mod N, where c is the cursor when the batch started, and after j items
\* the cursor is (c + j) mod N; between batches the cursor keeps its value.  N = 3,
\* cursor 0, five requests: targets [0,1,2,0,1], final cursor 2.
C5_RoundRobin == []C5_Cursor /\ [][C5_CursorKept]_vars

C5_Witness ==
    /\ pc = "rr"
    /\ dp_size = 3
    /\ cursor0 = 0
    /\ k > Len(recv_reqs)
    /\ targets = <<0, 1, 2, 0, 1>>
    /\ round_robin_counter = 2

\* C6 as stated: in the state just before an enqueue of SHORTEST_QUEUE, the depth of
\* the queue about to receive the item is the minimum of the depths of all queues,
\* and it is the lowest index with that depth.
C6_TargetIsShortestAtEnqueue ==
    (pc = "sq" /\ k <= Len(recv_reqs) /\ Len(queue_sizes) = dp_size) =>
        LET wid == ArgMinSeq(queue_sizes)
        IN \A j \in Workers :
              qsize(wid) < qsize(j) \/ (qsize(wid) = qsize(j) /\ wid <= j)

\* the step part of C6 as amended: every item starts from no depth read; a read
\* returns the depth the queue has at the read, earlier enqueues of the batch
\* counted; the item goes to the lowest index among the minima of the depths read
C6_ReadThenPut ==
    /\ k' # k => queue_sizes' = <<>>
    /\ (pc = "sq" /\ Len(queue_sizes') = Len(queue_sizes) + 1) =>
          LET w == Len(queue_sizes)
          IN queue_sizes'[w + 1] = Len(sent[w]) - head[w]
    /\ (pc = "sq" /\ k' = k + 1) =>
          LET wid == targets'[Len(targets')]
          IN /\ Len(queue_sizes) = dp_size
             /\ sent' = [sent EXCEPT ![wid] = Append(@, recv_reqs[k])]
             /\ \A j \in Workers :
                   \/ queue_sizes[wid + 1] < queue_sizes[j + 1]
                   \/ queue_sizes[wid + 1] = queue_sizes[j + 1] /\ wid <= j

\* the example of C6, no worker taking anything: N = 3, depths [4,1,2]
C6_Example ==
    (pc = "sq" /\ dp_size = 3 /\ base = (0 :> 4 @@ 1 :> 1 @@ 2 :> 2)
        /\ head = (0 :> 0 @@ 1 :> 0 @@ 2 :> 0)) =>
        \A j \in 1 .. Len(targets) : j <= 4 => targets[j] = <<1, 1, 2, 1>>[j]

\* C6 as amended: SHORTEST_QUEUE reads the depth of every queue anew for each item
\* and puts the item on the queue whose depth as read is the minimum of the depths
\* read, ties to the lowest index (a worker may take items between the read and the
\* enqueue).  N = 3, depths [4,1,2], four requests, no worker taking: targets
\* [1,1,2,1].
C6_ShortestQueue == [][C6_ReadThenPut]_vars /\ []C6_Example

C6_Witness ==
    /\ pc = "sq"
    /\ dp_size = 3
    /\ base = (0 :> 4 @@ 1 :> 1 @@ 2 :> 2)
    /\ head = (0 :> 0 @@ 1 :> 0 @@ 2 :> 0)
    /\ targets = <<1, 1, 2, 1>>

\* the dispatcher is in the for loop of resources_aware_scheduler
InLoop == pc \in {"ra_loop", "ra_lock"}

\* the tokens of the requests 1..j of the batch routed to worker w
RECURSIVE RoutedLen(_, _)
RoutedLen(w, j) ==
    IF j = 0 THEN 0
    ELSE RoutedLen(w, j - 1) + (IF targets[j] = w THEN msgs[recv_reqs[j]].len ELSE 0)

\* the current_bs the batch started from: the projection less what the batch routed
SnapshotBs(w) == remained_token[w] - RoutedLen(w, Len(targets))

\* the replicas that were eligible when the last request was routed: those still
\* on the list and the target, which is the only one the step can have removed
EligibleBefore == {available_gpu[i].id : i \in 1 .. Len(available_gpu)} \cup {target_gpu}

\* the projected remained_token the last request was routed on
RemainedBefore(j) ==
    IF j = target_gpu THEN remained_token[j] - input_len ELSE remained_token[j]

\* C7: RESOURCES_AWARE, eligible branch: the request is routed to the eligible
\* replica with the lowest projected remained_token (snapshot current_bs plus the
\* input_len of the requests already routed to it in this batch), ties to the
\* lowest id.  N = 2, threshold 100, cb = [0,0], mem = [1000,500], nr = [0,0], three
\* requests of input_len 200: targets [0,1,0].
C7_EligibleLowestProjected ==
    /\ (pc = "ra_lock" /\ branch = "eligible") =>
          \A j \in EligibleBefore :
             \/ RemainedBefore(target_gpu) < RemainedBefore(j)
             \/ RemainedBefore(target_gpu) = RemainedBefore(j) /\ target_gpu <= j
    /\ (InLoop /\ dp_size = 2 /\ available_kv_cache = (0 :> 1000 @@ 1 :> 500)
           /\ info_num_reqs = (0 :> 0 @@ 1 :> 0)
           /\ \A w \in Workers : SnapshotBs(w) = 0
           /\ \A j \in 1 .. Len(recv_reqs) : msgs[recv_reqs[j]].len = 200) =>
          \A j \in 1 .. Len(targets) : j <= 3 => targets[j] = <<0, 1, 0>>[j]

\* C8: RESOURCES_AWARE branch validity: a request is routed to replica t either on
\* the eligible branch, t's projected headroom available_mem[t] - remained_token[t]
\* being greater than threshold at selection time, or on the fallback branch, no
\* replica having projected headroom greater than threshold at selection time; the
\* projected available_mem and num_reqs are the snapshot adjusted by the requests
\* already routed in this batch.
C8_Selection ==
    (pc = "ra_loop" /\ pc' = "ra_lock") =>
        LET t == target_gpu'
        IN /\ t \in Workers
           /\ targets' = Append(targets, t)
           /\ \/ /\ branch' = "eligible"
                 /\ available_mem[t] - remained_token[t] > threshold
              \/ /\ branch' = "fallback"
                 /\ \A j \in Workers : available_mem[j] - remained_token[j] <= threshold
           /\ remained_token' = [remained_token EXCEPT ![t] = @ + input_len']
           /\ available_mem' = [available_mem EXCEPT ![t] = @ - input_len']

C8_Projection ==
    InLoop =>
        \A w \in Workers :
           /\ available_mem[w] = available_kv_cache[w] - RoutedLen(w, Len(targets))
           /\ num_reqs[w] = info_num_reqs[w]
                               + Cardinality({j \in 1 .. Len(targets) : targets[j] = w})

C8_BranchValidity == [][C8_Selection]_vars /\ []C8_Projection

\* a request routed on the fallback branch after the only replica of the batch with
\* headroom has lost it to an earlier request of the same batch
C8_Witness ==
    /\ pc = "ra_lock"
    /\ branch = "fallback"
    /\ Len(targets) >= 2
    /\ \E w \in Workers : available_kv_cache[w] - SnapshotBs(w) > threshold

\* the example of C9: N = 2, mem = [50,60], cb = [0,0], threshold 100, nr = [5,2]
C9_Example ==
    /\ InLoop
    /\ dp_size = 2
    /\ available_kv_cache = (0 :> 50 @@ 1 :> 60)
    /\ info_num_reqs = (0 :> 5 @@ 1 :> 2)
    /\ \A w \in Workers : SnapshotBs(w) = 0

\* C9 as stated, the example: every request of the batch, whatever the length of the
\* batch, is routed to replica 1.
C9_FallbackAlwaysReplicaOne ==
    C9_Example => \A j \in 1 .. Len(targets) : targets[j] = 1

\* the step part of C9 as amended: the fallback target is the lowest index among the
\* minima of the projected num_reqs, which counts the request afterwards
C9_Fallback ==
    (pc = "ra_loop" /\ pc' = "ra_lock" /\ branch' = "fallback") =>
        LET t == target_gpu'
        IN /\ \A j \in Workers :
                 num_reqs[t] < num_reqs[j] \/ (num_reqs[t] = num_reqs[j] /\ t <= j)
           /\ num_reqs' = [num_reqs EXCEPT ![t] = @ + 1]
           /\ sent' = [sent EXCEPT ![t] = Append(@, recv_reqs[k])]

C9_ExampleTargets ==
    C9_Example =>
        /\ pc = "ra_lock" => branch = "fallback"
        /\ \A j \in 1 .. Len(targets) : j <= 4 => targets[j] = <<1, 1, 1, 0>>[j]

\* C9 as amended: when no replica has headroom, each request is routed to argmin of
\* the projected num_reqs (the snapshot plus the requests already routed in this
\* batch), ties to the lowest index.  N = 2, mem = [50,60], cb = [0,0], threshold 100,
\* nr = [5,2]: the first three requests of a batch go to replica 1 and the fourth to
\* replica 0.
C9_FallbackArgmin == [][C9_Fallback]_vars /\ []C9_ExampleTargets

C9_Witness == C9_Example /\ pc = "ra_lock" /\ targets = <<1, 1, 1, 0>>

\* C10: with workers that release only the tokens of requests they have taken,
\* current_bs[i] is never negative, whatever the interleaving of the dispatcher's
\* enqueue and reservation steps with the workers' consume and release steps.
C10_CurrentBsNeverNegative == \A w \in Workers : current_bs[w] >= 0

\* C11: the snapshot (cb, mem, nr) that RESOURCES_AWARE uses for a batch equals the
\* content of the load block at one single instant: it never mixes values from
\* before and after a worker's multi-field update made under the lock.
C11_SnapshotAtOneInstant ==
    (pc = "ra_loop" /\ seen # {}) => <<remained_token, available_mem, num_reqs>> \in seen

\* the tokens of the first n items put on the queue of worker w
RECURSIVE Tokens(_, _)
Tokens(w, n) == IF n = 0 THEN 0 ELSE Tokens(w, n - 1) + msgs[sent[w][n]].len

\* what the dispatcher has reserved on worker w: under RESOURCES_AWARE the tokens of
\* every request it has put on the queue, the one it holds at the lock excepted
Reserved(w) ==
    IF load_balance_method # RESOURCES_AWARE THEN 0
    ELSE Tokens(w, Len(sent[w]))
            - (IF pc = "ra_lock" /\ target_gpu = w THEN input_len ELSE 0)

\* what worker w has released
Released(w) == Tokens(w, rel[w])

C12_Accounting == \A w \in Workers : current_bs[w] = 0 + Reserved(w) - Released(w)

\* a step of the dispatcher other than the reservation writes no field of the load
\* block, and the reservation adds input_len to current_bs[target_gpu] only
C12_DispatcherWrites ==
    /\ (pc = "ra_lock" /\ pc' = "ra_loop") =>
          /\ current_bs' = [current_bs EXCEPT ![target_gpu] = @ + input_len]
          /\ available_kv_cache' = available_kv_cache
          /\ info_num_reqs' = info_num_reqs
    /\ (rel' = rel /\ ~(pc = "ra_lock" /\ pc' = "ra_loop")) => block' = block

\* C12: for every request routed to replica t the dispatcher adds exactly input_len
\* to current_bs[t] in one step under the lock and writes no other field of the load
\* block (ROUND_ROBIN and SHORTEST_QUEUE write nothing); with the workers writing
\* under the lock too no update is lost: current_bs[t] is always its initial value
\* plus all reservations minus all releases.
C12_Reservation == []C12_Accounting /\ [][C12_DispatcherWrites]_vars

\* a reservation made after a worker released tokens between the snapshot of the
\* batch and the reservation
C12_Witness ==
    /\ pc = "ra_loop"
    /\ k > 1
    /\ \E w \in Workers :
          /\ rel[w] > 0
          /\ targets[k - 1] = w
          /\ remained_token[w] # current_bs[w]

\* the place of item s in the queue of worker w (0: not there)
Place(w, s) == IF \E i \in 1 .. Len(sent[w]) : sent[w][i] = s
               THEN CHOOSE i \in 1 .. Len(sent[w]) : sent[w][i] = s
               ELSE 0

\* C13: in one loop iteration, a FlushCacheReq received during the drain is on the
\* queue of every worker from the step that received it, and on every queue it lies
\* before every item received after it in the same iteration, whether that item is
\* put on the queue during the drain or by the policy.
C13_FlushBeforeLaterItems ==
    \A s \in drain0 + 1 .. nrecv :
        IsFlush(s) =>
            \A w \in Workers :
               /\ Place(w, s) > 0
               /\ \A r \in s + 1 .. nrecv : Place(w, r) > 0 => Place(w, s) < Place(w, r)

\* the policy has put a request on a queue that was received after a flush of the
\* same drain
C13_Witness ==
    /\ InPolicy
    /\ \E s \in drain0 + 1 .. nrecv :
          /\ IsFlush(s)
          /\ \E r \in s + 1 .. nrecv : \E w \in Workers :
                IsReq(r) /\ Place(w, r) > Place(w, s)

\* the worker processes the dispatcher has started
Spawned == {procs[i] : i \in 1 .. Len(procs)}

\* the dispatcher has met a fatal error
Fatal == pc \in {"failed", "killed"}

\* C14 (what is left of the workers): after a fatal error, a worker failing its init
\* handshake or an exception in the dispatch loop, SIGKILL has been sent to every
\* worker process the dispatcher has spawned.
C14_FatalErrorKillsEveryWorker == Fatal => sigkill = Spawned

\* the dispatcher is constructing the controller
Constructing == pc \in {"construct", "spawn", "handshake"}

C15_Table ==
    /\ Len(procs) > 0 => controller_info
    /\ Len(init_state) = Len(procs)
    /\ \A i \in 1 .. Len(procs) : procs[i] = i - 1
    /\ \A i \in 1 .. Len(procs) - 1 : init_state[i] = "init ok"
    /\ Len(workers) <= Len(procs) /\ Len(procs) <= Len(workers) + 1
    /\ \A i \in 1 .. Len(workers) : workers[i] = i - 1 /\ init_state[i] = "init ok"
    /\ (\E i \in 1 .. Len(procs) : init_state[i] \notin {"none", "init ok"}) =>
          pc \in {"handshake", "failed"}
    /\ ~(Constructing \/ pc = "failed") => Len(workers) = dp_size

C15_TableKept ==
    /\ pc = "failed" => pc' = "failed"
    /\ ~Constructing => workers' = workers /\ procs' = procs
    /\ Len(workers') > Len(workers) =>
          /\ init_state[Len(init_state)] = "init ok"
          /\ workers' = Append(workers, procs[Len(procs)])

\* C15: the load block exists before any worker is spawned; workers are spawned one
\* at a time, worker i+1 only after worker i wrote "init ok"; a handle is appended
\* only after its worker's "init ok", so the handle at index i is the one of replica
\* i; any other init value aborts start-up and the dispatch loop never runs; once
\* the loop runs the table has exactly N handles and never changes.
C15_Handshake == []C15_Table /\ [][C15_TableKept]_vars

\* the loop runs with two handles and has put something on the second worker's queue
C15_Witness ==
    /\ ~Constructing
    /\ workers = <<0, 1>>
    /\ sent[1] # <<>>

\* the policy has been called on an empty batch
EmptyBatch == pc \in {"rr", "sq", "ra_start"} /\ Len(recv_reqs) = 0

\* the step of C16: the dispatcher's step from a policy called on an empty batch is
\* the return to the drain, and it leaves the queues, the cursor and the load block
\* as they are; until then nothing is put on a queue and the cursor stays
C16_EmptyBatchStep ==
    EmptyBatch =>
        /\ sent' = sent
        /\ round_robin_counter' = round_robin_counter
        /\ pc' # pc => pc' = "recv" /\ block' = block /\ head' = head /\ rel' = rel

\* C16: running any of the three policies on an empty batch changes no state: no
\* worker queue, not the round-robin cursor, no field of the load block.
C16_EmptyBatchNoOp == [][C16_EmptyBatchStep]_vars

\* a policy called on an empty batch after earlier batches have moved the cursor,
\* filled a queue and reserved tokens
C16_Witness ==
    /\ EmptyBatch
    /\ \/ pc = "rr" /\ round_robin_counter # 0
       \/ pc = "sq" /\ \E w \in Workers : sent[w] # <<>>
       \/ pc = "ra_start" /\ \E w \in Workers : current_bs[w] # 0

IsInvalid(s) == msgs[s].kind = "Invalid"

\* a message of unknown kind is neither in the batch nor on a queue
C17_Discarded ==
    \A s \in 1 .. Len(msgs) :
        IsInvalid(s) =>
            /\ \A j \in 1 .. Len(recv_reqs) : recv_reqs[j] # s
            /\ \A w \in Workers : Place(w, s) = 0

\* the step that receives it changes nothing but the place in the intake: the
\* dispatcher stays in the drain with the batch and the queues it had
C17_DrainGoesOn ==
    (nrecv' = nrecv + 1 /\ IsInvalid(nrecv + 1)) =>
        /\ pc = "recv" /\ pc' = "recv"
        /\ recv_reqs' = recv_reqs
        /\ sent' = sent
        /\ round_robin_counter' = round_robin_counter
        /\ block' = block
        /\ sigkill' = sigkill

\* C17: a message of unknown kind received on the intake is discarded without a
\* fatal error: it is added neither to the batch nor to any worker queue and the
\* drain goes on with the next message, the batch and the queues being what they
\* would be had it not been sent.
C17_UnknownKindDiscarded == []C17_Discarded /\ [][C17_DrainGoesOn]_vars

\* a message of unknown kind received between two requests of the same batch
C17_Witness ==
    \E s \in drain0 + 1 .. nrecv :
        /\ IsInvalid(s)
        /\ \E i \in 1 .. Len(recv_reqs) : \E j \in 1 .. Len(recv_reqs) :
              IsReq(recv_reqs[i]) /\ IsReq(recv_reqs[j])
                 /\ recv_reqs[i] < s /\ s < recv_reqs[j]

\* C18: RESOURCES_AWARE with an AbortReq in the batch (it took the slot of a pending
\* request during the drain): the AbortReq is routed like a request with input_len
\* zero, that is, it is put on the queue of the selected worker, it leaves current_bs
\* of every replica unchanged, and the remaining items of the batch are dispatched
\* after it.
C18_AbortRoutedAtNoCost ==
    (load_balance_method = RESOURCES_AWARE /\ Finished
        /\ \E j \in 1 .. Len(recv_reqs) : IsAbort(recv_reqs[j])) =>
        /\ \A j \in 1 .. Len(recv_reqs) : \E w \in Workers : Place(w, recv_reqs[j]) > 0
        /\ \A i \in 1 .. Len(recv_reqs) : \A j \in i + 1 .. Len(recv_reqs) :
              \A w \in Workers :
                 (IsAbort(recv_reqs[i]) /\ targets[i] = w /\ targets[j] = w) =>
                    Place(w, recv_reqs[i]) < Place(w, recv_reqs[j])
        /\ \A w \in Workers : current_bs[w] = Reserved(w) - Released(w)

\* the ids of the replicas on the eligible list
Eligible(gpus) == {gpus[i].id : i \in 1 .. Len(gpus)}

Headroom(mem, rem, j) == mem[j] - rem[j]

\* every replica on the eligible list, once each, has projected headroom greater
\* than threshold
C19_EligibleHaveHeadroom ==
    InLoop =>
        /\ Cardinality(Eligible(available_gpu)) = Len(available_gpu)
        /\ \A j \in Eligible(available_gpu) :
              Headroom(available_mem, remained_token, j) > threshold

\* within a batch the list never grows, and an entry leaves it exactly when it is
\* the target just chosen from the list and its new projected headroom is at most
\* threshold
C19_Maintenance ==
    (InLoop /\ InLoop') =>
        LET old == Eligible(available_gpu)
            new == Eligible(available_gpu')
            t == target_gpu'
        IN /\ new \subseteq old
           /\ new # old =>
                 /\ pc = "ra_loop" /\ pc' = "ra_lock"
                 /\ old \ new = {t}
                 /\ Headroom(available_mem', remained_token', t) <= threshold
           /\ (pc = "ra_loop" /\ pc' = "ra_lock" /\ old # {}
                 /\ Headroom(available_mem', remained_token', t) <= threshold) =>
                 t \in old /\ t \notin new

\* C19: RESOURCES_AWARE eligibility maintenance: within a batch the eligible set
\* never grows; an entry leaves it only when it is the entry just chosen as target
\* and its new projected headroom available_mem[target] - remained_token[target] is
\* at most threshold; hence every replica in the set has projected headroom greater
\* than threshold at every step, and once the set is empty it stays empty until the
\* end of the batch.
C19_EligibilityMaintenance == []C19_EligibleHaveHeadroom /\ [][C19_Maintenance]_vars

\* two replicas have left the eligible list one after the other and the third
\* request of the batch finds it empty
C19_Witness ==
    /\ pc = "ra_lock"
    /\ dp_size = 2
    /\ Len(targets) = 3
    /\ targets[1] # targets[2]
    /\ branch = "fallback"
    /\ available_gpu = <<>>

\* the positions a message can have in msgs
MaxMsgs == Len(AbortStream) + MaxSend

\* request s is in the batch the drain has handed to the policy
Dispatchable(s) ==
    /\ s <= nrecv
    /\ IsReq(s)
    /\ pc # "recv"
    /\ \E j \in 1 .. Len(recv_reqs) : recv_reqs[j] = s

Enqueued(s) == \E w \in Workers : Place(w, s) > 0

\* C20 (the liveness half): the tokenizer sending finitely many messages, every
\* request received and not replaced by an AbortReq in its drain is eventually put
\* on a worker queue, under weak fairness of the dispatcher's steps.
C20_RequestsEventuallyEnqueued ==
    \A s \in 1 .. MaxMsgs : Dispatchable(s) ~> Enqueued(s)

\* the request at position s is the only received request with its rid
UsedOnce(s) ==
    \A y \in 1 .. nrecv : (IsReq(y) /\ msgs[y].rid = msgs[s].rid) => y = s

\* the abort at position a was received after the request at position s it names
AbortedLater(s, a) ==
    /\ IsReq(s) /\ IsAbort(a)
    /\ msgs[a].rid = msgs[s].rid
    /\ s < a /\ a <= nrecv

\* C21: for a request id used once, if the request is on worker t's queue and an
\* AbortReq of the same id was received after it, the AbortReq is on t's queue at a
\* later position than the request, under every policy and any sequence of drains.
C21_AbortBehindItsRequest ==
    \A s \in 1 .. Len(msgs) : \A a \in 1 .. Len(msgs) : \A t \in Workers :
        (AbortedLater(s, a) /\ UsedOnce(s) /\ Place(t, s) > 0)
            => Place(t, a) > Place(t, s)

\* a request dispatched in one iteration, its abort received in a later one and
\* broadcast behind it, on a queue that did not get the request as well
C21_Witness ==
    \E s \in 1 .. Len(msgs) : \E a \in 1 .. Len(msgs) : \E t \in Workers :
        /\ AbortedLater(s, a) /\ UsedOnce(s)
        /\ Place(t, s) > 0 /\ Place(t, a) > Place(t, s)
        /\ \A w \in Workers : Place(w, a) > 0

====
